---- MODULE Spec2Model ----
(***************************************************************************)
(* The Milvus query implementations of SpatialBench                        *)
(* (src/spatialbench-queries/milvus_queries.py) as a state machine.        *)
(*                                                                         *)
(* One query call is in progress at a time.  A call opens a connection,    *)
(* performs one or two blocking fetches and computes its DataFrame from    *)
(* the fetched rows.  An action is the piece of a query function that runs *)
(* from one blocking backend request to the next (or to the return, which  *)
(* includes the finally clause).  What a fetch returns is the backend's    *)
(* choice: any sequence of rows with distinct primary keys, in any order.  *)
(*                                                                         *)
(* Geometry: shapely values are abstracted to closed intervals on one      *)
(* axis with integer ends.  A point is the interval [x, x]; a polygon is   *)
(* [lo, hi] with lo <= hi (lo = hi is a degenerate, zero-area polygon);    *)
(* its area is its length.  Floating point numbers are exact rationals.    *)
(***************************************************************************)
EXTENDS Integers, Sequences, FiniteSets, TLC

(* ------------------------------ bounds -------------------------------- *)

\* Rows a fetch returns at most, and the largest primary key.
MaxRows == 2
\* Coordinates are 0..GridMax.
GridMax == 3
\* Timestamps are 0..MaxTime.
MaxTime == 1
\* Numeric measures (distance, fare, tip, total amount) are 1..MaxVal.
MaxVal == 2

(* ----------------------------- utilities ------------------------------ *)

Min(a, b) == IF a <= b THEN a ELSE b

Max(a, b) == IF a >= b THEN a ELSE b

RECURSIVE SumSeq(_)
SumSeq(s) == IF s = <<>> THEN 0 ELSE Head(s) + SumSeq(Tail(s))

\* s[:n]
Take(s, n) == SubSeq(s, 1, Min(n, Len(s)))

\* The sequences over 1..MaxRows without repetition: the orders in which
\* a backend can return rows with distinct primary keys.
KeySeqs(maxLen) ==
    {ks \in UNION {[1..n -> 1..MaxRows] : n \in 0..Min(maxLen, MaxRows)} :
        \A i, j \in 1..Len(ks) : i # j => ks[i] # ks[j]}

(* --------------------------- floating point --------------------------- *)

\* A float is the exact rational num/den (den > 0), or NaN.
NaN == [nan |-> TRUE, num |-> 0, den |-> 1]

Float(n) == [nan |-> FALSE, num |-> n, den |-> 1]

\* a / b for b > 0
Div(a, b) == [nan |-> FALSE, num |-> a, den |-> b]

FloatEq(a, b) == ~a.nan /\ ~b.nan /\ a.num * b.den = b.num * a.den

FloatLess(a, b) == ~a.nan /\ ~b.nan /\ a.num * b.den < b.num * a.den

\* Series.mean(): NaN for an empty series
Mean(s) == IF s = <<>> THEN NaN ELSE Div(SumSeq(s), Len(s))

\* DataFrame.sort_values on several keys (a stable sort): before[i, j] says
\* that the keys of s[i] sort strictly before those of s[j]; rows with equal
\* keys keep their input order.
SortBy(s, before) ==
    LET Rank(i) == 1 + Cardinality({j \in 1..Len(s) :
                        \/ before[j, i]
                        \/ (~before[i, j] /\ j < i)})
    IN  [k \in 1..Len(s) |-> s[CHOOSE i \in 1..Len(s) : Rank(i) = k]]

\* pd.DataFrame(columns=[...]) and pd.DataFrame(list of dicts)
DataFrame(cols, rws) == [columns |-> cols, rows |-> rws]

NoFrame == DataFrame(<<>>, <<>>)

(* ------------------------------ geometry ------------------------------ *)

\* Geometry as the backend stores and returns it (WKT text).
PointWKT == {<<"POINT", x>> : x \in 0..GridMax}

PolygonWKT ==
    {<<"POLYGON", p[1], p[2]>> :
        p \in {q \in (0..GridMax) \X (0..GridMax) : q[1] <= q[2]}}

\* Python's None
None == <<"None">>

\* The empty string, where WKT text is expected
EmptyWKT == <<"">>

\* The WKB bytes of the geometry with WKT text w, as the parquet files hold it
WKB(w) == <<"WKB", w>>

\* Bytes that are not the WKB of any geometry
CorruptWKB == <<"WKB", <<"?">>>>

\* wkb_to_wkt of the loader: the WKT text of the geometry, None for None and
\* for bytes that shapely.wkb.loads rejects
wkb_to_wkt(wkb_data) ==
    IF wkb_data = None THEN None
    ELSE IF wkb_data[2] \in PointWKT \cup PolygonWKT THEN wkb_data[2]
    ELSE None

\* df.fillna({col: ""}) on a geometry (object) column: None becomes ""
fillna(v) == IF v = None THEN EmptyWKT ELSE v

\* What prepare_row_data makes of a geometry cell
PreparedGeometry(wkb_data) == fillna(wkb_to_wkt(wkb_data))

\* The text a geometry field can hold once the loader has stored it
StoredPointWKT == {PreparedGeometry(b) : b \in {WKB(w) : w \in PointWKT} \cup {CorruptWKB, None}}

StoredPolygonWKT ==
    {PreparedGeometry(b) : b \in {WKB(w) : w \in PolygonWKT} \cup {CorruptWKB, None}}

\* What shapely.wkt.loads gives for text that is not WKT: it raises
ParseError == [type |-> "raise", lo |-> 0, hi |-> 0]

\* shapely.wkt.loads
loads(w) ==
    IF w[1] = "POINT" THEN [type |-> "Point", lo |-> w[2], hi |-> w[2]]
    ELSE IF w[1] = "POLYGON" THEN [type |-> "Polygon", lo |-> w[2], hi |-> w[3]]
    ELSE ParseError

\* series.apply(shapely_wkt.loads) raises on some row
ApplyLoadsRaises(rows, fld) == \E i \in DOMAIN rows : loads(rows[i][fld]) = ParseError

\* geom.area
Area(g) == IF g.type = "Polygon" THEN g.hi - g.lo ELSE 0

\* contains with the boundary counted in
ContainsClosed(g, pt) == g.type = "Polygon" /\ g.lo <= pt.lo /\ pt.hi <= g.hi

\* polygon.contains(point): the point lies in the polygon's interior; a
\* point on the boundary is not contained.
Contains(g, pt) == g.type = "Polygon" /\ g.lo < pt.lo /\ pt.hi < g.hi

\* intersects as a test that lets every pair through
IntersectsAlways(g1, g2) == TRUE

\* geom1.intersects(geom2): boundaries or interiors share a point.
Intersects(g1, g2) == g1.lo <= g2.hi /\ g2.lo <= g1.hi

\* geom1.intersection(geom2), for geometries that intersect: a polygon, or
\* a point where they only touch.
Intersection(g1, g2) ==
    LET lo == Max(g1.lo, g2.lo)
        hi == Min(g1.hi, g2.hi)
    IN  [type |-> IF lo < hi THEN "Polygon" ELSE "Point", lo |-> lo, hi |-> hi]

\* geom1.distance(geom2): 0 when they share a point
Distance(g1, g2) == Max(0, Max(g2.lo - g1.hi, g1.lo - g2.hi))

\* Timestamps are stored as text (VARCHAR).
TimeStr(t) == <<"T", t>>

\* pd.to_datetime
to_datetime(s) == s[2]

(* --------------------------- what a fetch returns --------------------- *)

\* client.query(..., limit=limit): at most limit rows, with distinct
\* primary keys, in the backend's order.  A row is given here as the pair
\* of its key and its other output fields, drawn from Attr.
Rows(limit, Attr) ==
    UNION {{[i \in 1..Len(ks) |-> <<ks[i], a[i]>>] : a \in [1..Len(ks) -> Attr]}
             : ks \in KeySeqs(limit)}

\* The name of a zone or building is determined by its (unique) key and is
\* only ever copied to the output.
NameOf(k) == <<"name", k>>

\* (pickup time, dropoff time) of a trip: the dropoff is not before the pickup.
TimePairs == {tt \in (0..MaxTime) \X (0..MaxTime) : tt[1] <= tt[2]}

Vals == 1..MaxVal

\* The members of a set of integers in ascending order.
Ascending(S) ==
    [k \in 1..Cardinality(S) |->
        CHOOSE x \in S : Cardinality({y \in S : y < x}) = k - 1]

(* ------------------------------- q1 ----------------------------------- *)

\* center = Point(-111.7610, 34.8697), on the model's axis
CenterX == 1

Q1Columns ==
    <<"t_tripkey", "pickup_lon", "pickup_lat", "t_pickuptime", "distance_to_center">>

\* The columns selected from the sorted frame
Q1RowColumns ==
    <<"t_tripkey", "pickup_lon", "pickup_lat", "t_pickuptime", "distance_to_center">>

\* The rows that pass GEOM_DWITHIN(t_pickuploc, ...) hold a point
Q1TripRows(limit) ==
    LET Make(k, a) == [t_tripkey |-> k, t_pickuploc |-> a[1], t_pickuptime |-> TimeStr(a[2])]
    IN  {[i \in DOMAIN r |-> Make(r[i][1], r[i][2])] :
            r \in Rows(limit, PointWKT \X (0..MaxTime))}

Q1Before(a, b) ==
    \/ a.distance_to_center < b.distance_to_center
    \/ /\ a.distance_to_center = b.distance_to_center
       /\ a.t_tripkey < b.t_tripkey

\* df["t_pickuploc"].apply(shapely_wkt.loads) raises
Q1ParseRaises(results) == results # <<>> /\ ApplyLoadsRaises(results, "t_pickuploc")

\* q1 from the fetched rows on
Q1Frame(results) ==
    IF results = <<>> THEN DataFrame(Q1Columns, <<>>)
    ELSE LET center == loads(<<"POINT", CenterX>>)
             df == [i \in 1..Len(results) |->
                      LET g == loads(results[i].t_pickuploc)
                      IN  [t_tripkey |-> results[i].t_tripkey,
                           pickup_lon |-> g.lo,
                           pickup_lat |-> 0,
                           t_pickuptime |-> results[i].t_pickuptime,
                           distance_to_center |-> Distance(g, center)]]
         IN  DataFrame(Q1RowColumns,
                       SortBy(df, [a, b \in DOMAIN df |-> Q1Before(df[a], df[b])]))

(* ------------------------------- q2 ----------------------------------- *)

Q2Columns == <<"trip_count_in_coconino_county">>

Q2ZoneRows(limit) ==
    LET Make(k, a) == [z_boundary |-> a]
    IN  {[i \in DOMAIN r |-> Make(r[i][1], r[i][2])] : r \in Rows(limit, StoredPolygonWKT)}

\* The rows of the trip collection that pass
\* GEOM_INTERSECTS(t_pickuploc, county_wkt): the pickup and the county
\* share a point, a point of the county's boundary included.  Only
\* t_tripkey is fetched; t_pickuploc is what the collection holds for the
\* row.  The backend evaluates no filter whose argument is not WKT.
Q2TripRows(limit, county_wkt) ==
    LET Make(k, a) == [t_tripkey |-> k, t_pickuploc |-> a]
        Pass(a) == Intersects(loads(a), loads(county_wkt))
    IN  IF loads(county_wkt) = ParseError THEN {}
        ELSE {[i \in DOMAIN r |-> Make(r[i][1], r[i][2])] :
                 r \in Rows(limit, {a \in PointWKT : Pass(a)})}

Q2Frame(count) == DataFrame(Q2Columns, <<[trip_count_in_coconino_county |-> count]>>)

\* What q2 returns for the rows its fetches return
Q2Result(zone_results, trip_results) ==
    IF zone_results = <<>> THEN Q2Frame(0)
    ELSE Q2Frame(Len(trip_results))

(* ------------------------------- q3 ----------------------------------- *)

\* Timestamps per calendar month.
MonthLen == 2

\* dt.to_period("M").dt.to_timestamp(): the start of the timestamp's month
MonthStart(t) == t - (t % MonthLen)

Q3Columns == <<"pickup_month", "total_trips", "avg_distance", "avg_duration", "avg_fare">>

\* The group key, then the aggregates in the order agg() names them
Q3RowColumns == <<"pickup_month", "total_trips", "avg_distance", "avg_duration", "avg_fare">>

Q3TripRows(limit) ==
    LET Make(k, a) == [t_tripkey |-> k,
                       t_pickuptime |-> TimeStr(a[1][1]),
                       t_dropofftime |-> TimeStr(a[1][2]),
                       t_distance |-> a[2],
                       t_fare |-> a[3]]
    IN  {[i \in DOMAIN r |-> Make(r[i][1], r[i][2])] : r \in Rows(limit, TimePairs \X Vals \X Vals)}

Q3Frame(results) ==
    IF results = <<>> THEN DataFrame(Q3Columns, <<>>)
    ELSE LET df == [i \in 1..Len(results) |->
                      LET pickup == to_datetime(results[i].t_pickuptime)
                          dropoff == to_datetime(results[i].t_dropofftime)
                      IN  [t_tripkey |-> results[i].t_tripkey,
                           t_distance |-> results[i].t_distance,
                           t_fare |-> results[i].t_fare,
                           duration_seconds |-> dropoff - pickup,
                           pickup_month |-> MonthStart(pickup)]]
             months == Ascending({df[i].pickup_month : i \in 1..Len(df)})
             Group(m) == LET InMonth(r) == r.pickup_month = m IN SelectSeq(df, InMonth)
             Col(g, f) == [i \in 1..Len(g) |-> g[i][f]]
             agg == [k \in 1..Len(months) |->
                      LET g == Group(months[k])
                      IN  [pickup_month |-> months[k],
                           total_trips |-> Len(g),
                           avg_distance |-> Mean(Col(g, "t_distance")),
                           avg_duration |-> Mean(Col(g, "duration_seconds")),
                           avg_fare |-> Mean(Col(g, "t_fare"))]]
             ByMonth(a, b) == a.pickup_month < b.pickup_month
         IN  DataFrame(Q3RowColumns,
                       SortBy(agg, [a, b \in DOMAIN agg |-> ByMonth(agg[a], agg[b])]))

\* The numeric cells of a result that may hold "no value" are Floats.

\* MatchingTrips with the boundary counted in: intersects instead of contains
MatchingTripsClosed(zone_row, trip_results) ==
    LET zone_geom == loads(zone_row.z_boundary)
        In(t) == Intersects(zone_geom, loads(t.t_pickuploc))
    IN  SelectSeq(trip_results, In)

\* The trips whose pickup the zone contains, in order: trip_df[mask]
MatchingTrips(zone_row, trip_results) ==
    LET zone_geom == loads(zone_row.z_boundary)
        In(t) == Contains(zone_geom, loads(t.t_pickuploc))
    IN  SelectSeq(trip_results, In)

(* ------------------------------- q4 ----------------------------------- *)

\* head(1000)
TopTrips == 1000

Q4Columns == <<"z_zonekey", "z_name", "trip_count">>

\* The keys of a result row, in the order the row is built
Q4RowColumns == <<"z_zonekey", "z_name", "trip_count">>

Q4TripRows(limit) ==
    LET Make(k, a) == [t_tripkey |-> k, t_pickuploc |-> a[1], t_tip |-> a[2]]
    IN  {[i \in DOMAIN r |-> Make(r[i][1], r[i][2])] : r \in Rows(limit, StoredPointWKT \X Vals)}

\* The zone rows of q4 and q10
ZoneRows(limit) ==
    LET Make(k, a) == [z_zonekey |-> k, z_name |-> NameOf(k), z_boundary |-> a]
    IN  {[i \in DOMAIN r |-> Make(r[i][1], r[i][2])] : r \in Rows(limit, StoredPolygonWKT)}

Q4TripBefore(a, b) ==
    \/ a.t_tip > b.t_tip
    \/ (a.t_tip = b.t_tip /\ a.t_tripkey < b.t_tripkey)

Q4Before(a, b) ==
    \/ a.trip_count > b.trip_count
    \/ (a.trip_count = b.trip_count /\ a.z_zonekey < b.z_zonekey)

\* top_trips: the 1000 trips with the largest tip
Q4TopTrips(trip_results) ==
    LET df == trip_results
    IN  Take(SortBy(df, [a, b \in DOMAIN df |-> Q4TripBefore(df[a], df[b])]), TopTrips)

\* Parsing the pickups of the top trips or the zone boundaries raises
Q4ParseRaises(trip_results, zone_results) ==
    /\ trip_results # <<>> /\ zone_results # <<>>
    /\ \/ ApplyLoadsRaises(Q4TopTrips(trip_results), "t_pickuploc")
       \/ ApplyLoadsRaises(zone_results, "z_boundary")

\* q4 from its second fetch on (trip_results is not empty)
Q4Frame(trip_results, zone_results) ==
    IF zone_results = <<>> THEN DataFrame(Q4Columns, <<>>)
    ELSE LET top_trips == Q4TopTrips(trip_results)
             Count(zone_row) == Len(MatchingTrips(zone_row, top_trips))
             Matched(zone_row) == Count(zone_row) > 0
             matched == SelectSeq(zone_results, Matched)
             results == [i \in 1..Len(matched) |->
                           [z_zonekey |-> matched[i].z_zonekey,
                            z_name |-> matched[i].z_name,
                            trip_count |-> Count(matched[i])]]
         IN  IF results = <<>> THEN DataFrame(Q4Columns, <<>>)
             ELSE DataFrame(Q4RowColumns,
                            SortBy(results,
                                   [a, b \in DOMAIN results |-> Q4Before(results[a], results[b])]))

\* What q4 returns for the rows its fetches return
Q4Result(trip_results, zone_results) ==
    IF trip_results = <<>> THEN DataFrame(Q4Columns, <<>>)
    ELSE Q4Frame(trip_results, zone_results)

(* ------------------------------- q6 ----------------------------------- *)

Q6Columns == <<"z_zonekey", "z_name", "total_pickups", "avg_distance", "avg_duration">>

Q6RowColumns == <<"z_zonekey", "z_name", "total_pickups", "avg_distance", "avg_duration">>

\* The rows that pass GEOM_INTERSECTS(z_boundary, bbox) hold a polygon
Q6ZoneRows(limit) ==
    LET Make(k, a) == [z_zonekey |-> k, z_name |-> NameOf(k), z_boundary |-> a]
    IN  {[i \in DOMAIN r |-> Make(r[i][1], r[i][2])] :
            r \in {x \in Rows(limit, PolygonWKT) :
                     \A i \in DOMAIN x :
                         Intersects(loads(x[i][2]), loads(<<"POLYGON", 0, GridMax>>))}}

\* t_distance is fetched too; it is never read, because the fetched rows
\* always carry t_totalamount.
Q6TripRows(limit) ==
    LET Make(k, a) == [t_tripkey |-> k,
                       t_pickuploc |-> a[1],
                       t_pickuptime |-> TimeStr(a[2][1]),
                       t_dropofftime |-> TimeStr(a[2][2]),
                       t_totalamount |-> a[3]]
    IN  {[i \in DOMAIN r |-> Make(r[i][1], r[i][2])] :
            r \in Rows(limit, StoredPointWKT \X TimePairs \X Vals)}

Q6Before(a, b) ==
    \/ a.total_pickups > b.total_pickups
    \/ (a.total_pickups = b.total_pickups /\ a.z_zonekey < b.z_zonekey)

\* (t_dropofftime - t_pickuptime).dt.total_seconds()
Durations(trips) ==
    [i \in 1..Len(trips) |->
        to_datetime(trips[i].t_dropofftime) - to_datetime(trips[i].t_pickuptime)]

\* Parsing the pickups or the zone boundaries raises
Q6ParseRaises(zone_results, trip_results) ==
    /\ zone_results # <<>> /\ trip_results # <<>>
    /\ \/ ApplyLoadsRaises(trip_results, "t_pickuploc")
       \/ ApplyLoadsRaises(zone_results, "z_boundary")

\* q6 from its second fetch on (zone_results is not empty)
Q6Frame(zone_results, trip_results) ==
    IF trip_results = <<>> THEN DataFrame(Q6Columns, <<>>)
    ELSE LET Matched(zone_row) == Len(MatchingTrips(zone_row, trip_results)) > 0
             matched == SelectSeq(zone_results, Matched)
             results == [i \in 1..Len(matched) |->
                           LET matching_trips == MatchingTrips(matched[i], trip_results)
                           IN  [z_zonekey |-> matched[i].z_zonekey,
                                z_name |-> matched[i].z_name,
                                total_pickups |-> Len(matching_trips),
                                avg_distance |->
                                    Mean([j \in 1..Len(matching_trips) |->
                                             matching_trips[j].t_totalamount]),
                                avg_duration |-> Mean(Durations(matching_trips))]]
         IN  IF results = <<>> THEN DataFrame(Q6Columns, <<>>)
             ELSE DataFrame(Q6RowColumns,
                            SortBy(results,
                                   [a, b \in DOMAIN results |-> Q6Before(results[a], results[b])]))

\* What q6 returns for the rows its fetches return
Q6Result(zone_results, trip_results) ==
    IF zone_results = <<>> THEN DataFrame(Q6Columns, <<>>)
    ELSE Q6Frame(zone_results, trip_results)

(* ------------------------------- q8 ----------------------------------- *)

\* threshold = 0.0045 (about 500 m), on the model's axis
Threshold == 1

Q8Columns == <<"b_buildingkey", "b_name", "nearby_pickup_count">>

Q8RowColumns == <<"b_buildingkey", "b_name", "nearby_pickup_count">>

Q8BuildingRows(limit) ==
    LET Make(k, a) == [b_buildingkey |-> k, b_name |-> NameOf(k), b_boundary |-> a]
    IN  {[i \in DOMAIN r |-> Make(r[i][1], r[i][2])] : r \in Rows(limit, StoredPolygonWKT)}

Q8TripRows(limit) ==
    LET Make(k, a) == [t_tripkey |-> k, t_pickuploc |-> a]
    IN  {[i \in DOMAIN r |-> Make(r[i][1], r[i][2])] : r \in Rows(limit, StoredPointWKT)}

Q8Before(a, b) ==
    \/ a.nearby_pickup_count > b.nearby_pickup_count
    \/ (a.nearby_pickup_count = b.nearby_pickup_count /\ a.b_buildingkey < b.b_buildingkey)

\* Parsing the pickups or the building boundaries raises
Q8ParseRaises(building_results, trip_results) ==
    /\ building_results # <<>> /\ trip_results # <<>>
    /\ \/ ApplyLoadsRaises(trip_results, "t_pickuploc")
       \/ ApplyLoadsRaises(building_results, "b_boundary")

\* q8 from its second fetch on (building_results is not empty)
Q8Frame(building_results, trip_results) ==
    IF trip_results = <<>> THEN DataFrame(Q8Columns, <<>>)
    ELSE LET Count(building_row) ==
                 LET boundary_geom == loads(building_row.b_boundary)
                     Near(t) == Distance(loads(t.t_pickuploc), boundary_geom) <= Threshold
                 IN  Len(SelectSeq(trip_results, Near))
             Matched(building_row) == Count(building_row) > 0
             matched == SelectSeq(building_results, Matched)
             results == [i \in 1..Len(matched) |->
                           [b_buildingkey |-> matched[i].b_buildingkey,
                            b_name |-> matched[i].b_name,
                            nearby_pickup_count |-> Count(matched[i])]]
         IN  IF results = <<>> THEN DataFrame(Q8Columns, <<>>)
             ELSE DataFrame(Q8RowColumns,
                            SortBy(results,
                                   [a, b \in DOMAIN results |-> Q8Before(results[a], results[b])]))

\* What q8 returns for the rows its fetches return
Q8Result(building_results, trip_results) ==
    IF building_results = <<>> THEN DataFrame(Q8Columns, <<>>)
    ELSE Q8Frame(building_results, trip_results)

(* ------------------------------- q9 ----------------------------------- *)

Q9Columns == <<"building_1", "building_2", "area1", "area2", "overlap_area", "iou">>

Q9RowColumns == <<"building_1", "building_2", "area1", "area2", "overlap_area", "iou">>

Q9BuildingRows(limit) ==
    LET Make(k, a) == [b_buildingkey |-> k, b_boundary |-> a]
    IN  {[i \in DOMAIN r |-> Make(r[i][1], r[i][2])] : r \in Rows(limit, StoredPolygonWKT)}

\* IoU with the first test written >= : it divides when union_area is 0
IoUDividesAtZero(overlap_area, union_area) ==
    IF union_area >= 0 THEN Div(overlap_area, union_area)
    ELSE IF overlap_area > 0 THEN Float(1)
    ELSE Float(0)

\* The three-way branch on union_area and overlap_area
IoU(overlap_area, union_area) ==
    IF union_area > 0 THEN Div(overlap_area, union_area)
    ELSE IF overlap_area > 0 THEN Float(1)
    ELSE Float(0)

\* for i in range(n): for j in range(i + 1, n), in loop order
RECURSIVE PairsFrom(_, _, _)
PairsFrom(i, j, n) ==
    IF i >= n THEN <<>>
    ELSE IF j > n THEN PairsFrom(i + 1, i + 2, n)
    ELSE <<<<i, j>>>> \o PairsFrom(i, j + 1, n)

\* The branch of the IoU computation that is taken: "divide", "one" (iou =
\* 1.0) or "zero" (iou = 0.0)
IoUCase(overlap_area, union_area) ==
    IF union_area > 0 THEN "divide"
    ELSE IF overlap_area > 0 THEN "one"
    ELSE "zero"

\* Q9Row with the overlap taken off the union twice
Q9RowOverlapOffTwice(b1, b2) ==
    LET geom1 == loads(b1.b_boundary)
        geom2 == loads(b2.b_boundary)
        area1 == Area(geom1)
        area2 == Area(geom2)
        overlap_area == Area(Intersection(geom1, geom2))
        union_area == area1 + area2 - 2 * overlap_area
    IN  [building_1 |-> b1.b_buildingkey,
         building_2 |-> b2.b_buildingkey,
         area1 |-> area1,
         area2 |-> area2,
         overlap_area |-> overlap_area,
         iou |-> IoU(overlap_area, union_area)]

\* The row appended for the pair (b1, b2)
Q9Row(b1, b2) ==
    LET geom1 == loads(b1.b_boundary)
        geom2 == loads(b2.b_boundary)
        area1 == Area(geom1)
        area2 == Area(geom2)
        overlap_area == Area(Intersection(geom1, geom2))
        union_area == area1 + area2 - overlap_area
    IN  [building_1 |-> b1.b_buildingkey,
         building_2 |-> b2.b_buildingkey,
         area1 |-> area1,
         area2 |-> area2,
         overlap_area |-> overlap_area,
         iou |-> IoU(overlap_area, union_area)]

Q9Before(a, b) ==
    \/ FloatLess(b.iou, a.iou)
    \/ /\ FloatEq(a.iou, b.iou)
       /\ \/ a.building_1 < b.building_1
          \/ (a.building_1 = b.building_1 /\ a.building_2 < b.building_2)

\* Parsing the building boundaries raises
Q9ParseRaises(building_results) ==
    building_results # <<>> /\ ApplyLoadsRaises(building_results, "b_boundary")

\* q9 from the fetched rows on
Q9Frame(building_results) ==
    IF building_results = <<>> THEN DataFrame(Q9Columns, <<>>)
    ELSE LET buildings == building_results
             Hit(p) == Intersects(loads(buildings[p[1]].b_boundary),
                                  loads(buildings[p[2]].b_boundary))
             hits == SelectSeq(PairsFrom(1, 2, Len(buildings)), Hit)
             results == [k \in 1..Len(hits) |->
                           Q9Row(buildings[hits[k][1]], buildings[hits[k][2]])]
         IN  IF results = <<>> THEN DataFrame(Q9Columns, <<>>)
             ELSE DataFrame(Q9RowColumns,
                            SortBy(results,
                                   [a, b \in DOMAIN results |-> Q9Before(results[a], results[b])]))

(* ------------------------------- q10 ---------------------------------- *)

Q10Columns == <<"z_zonekey", "pickup_zone", "avg_duration", "avg_distance", "num_trips">>

\* The columns selected on the path without trips
Q10NoTripColumns == <<"z_zonekey", "pickup_zone", "avg_duration", "avg_distance", "num_trips">>

Q10RowColumns == <<"z_zonekey", "pickup_zone", "avg_duration", "avg_distance", "num_trips">>

Q10TripRows(limit) ==
    LET Make(k, a) == [t_tripkey |-> k,
                       t_pickuploc |-> a[1],
                       t_pickuptime |-> TimeStr(a[2][1]),
                       t_dropofftime |-> TimeStr(a[2][2]),
                       t_distance |-> a[3]]
    IN  {[i \in DOMAIN r |-> Make(r[i][1], r[i][2])] :
            r \in Rows(limit, StoredPointWKT \X TimePairs \X Vals)}

\* Q10Before without na_position="last": NaN sorts as the largest value,
\* first in the descending order
Q10BeforeNaFirst(a, b) ==
    \/ a.avg_duration.nan /\ ~b.avg_duration.nan
    \/ FloatLess(b.avg_duration, a.avg_duration)
    \/ /\ \/ FloatEq(a.avg_duration, b.avg_duration)
          \/ (a.avg_duration.nan /\ b.avg_duration.nan)
       /\ a.z_zonekey < b.z_zonekey

\* sort_values(["avg_duration", "z_zonekey"], ascending=[False, True],
\* na_position="last")
Q10Before(a, b) ==
    \/ ~a.avg_duration.nan /\ b.avg_duration.nan
    \/ FloatLess(b.avg_duration, a.avg_duration)
    \/ /\ \/ FloatEq(a.avg_duration, b.avg_duration)
          \/ (a.avg_duration.nan /\ b.avg_duration.nan)
       /\ a.z_zonekey < b.z_zonekey

\* Q10EmptyRow with a zero average distance instead of NaN
Q10EmptyRowZeroAvg(zone_row) ==
    [z_zonekey |-> zone_row.z_zonekey,
     pickup_zone |-> zone_row.z_name,
     avg_duration |-> NaN,
     avg_distance |-> Float(0),
     num_trips |-> Float(0)]

\* The row of a zone without matching trips
Q10EmptyRow(zone_row) ==
    [z_zonekey |-> zone_row.z_zonekey,
     pickup_zone |-> zone_row.z_name,
     avg_duration |-> NaN,
     avg_distance |-> NaN,
     num_trips |-> Float(0)]

\* The row of a zone with matching trips
Q10StatsRow(zone_row, matching_trips) ==
    [z_zonekey |-> zone_row.z_zonekey,
     pickup_zone |-> zone_row.z_name,
     avg_duration |-> Mean(Durations(matching_trips)),
     avg_distance |-> Mean([j \in 1..Len(matching_trips) |-> matching_trips[j].t_distance]),
     num_trips |-> Float(Len(matching_trips))]

\* Q10Frame as an inner join: zones without matching trips are left out
Q10FrameInnerJoin(zone_results, trip_results) ==
    LET Matched(zone_row) == Len(MatchingTrips(zone_row, trip_results)) > 0
        matched == SelectSeq(zone_results, Matched)
        results == [i \in 1..Len(matched) |->
                      Q10StatsRow(matched[i], MatchingTrips(matched[i], trip_results))]
    IN  DataFrame(Q10RowColumns,
                       SortBy(results,
                              [a, b \in DOMAIN results |-> Q10Before(results[a], results[b])]))

\* Parsing raises: the zone boundaries are parsed before trip_results is
\* tested, the pickups after it
Q10ParseRaises(zone_results, trip_results) ==
    /\ zone_results # <<>>
    /\ \/ ApplyLoadsRaises(zone_results, "z_boundary")
       \/ ApplyLoadsRaises(trip_results, "t_pickuploc")

\* q10 from its second fetch on (zone_results is not empty)
Q10Frame(zone_results, trip_results) ==
    IF trip_results = <<>>
    THEN LET rws == [i \in 1..Len(zone_results) |-> Q10EmptyRow(zone_results[i])]
         IN  DataFrame(Q10NoTripColumns,
                       SortBy(rws, [a, b \in DOMAIN rws |-> Q10Before(rws[a], rws[b])]))
    ELSE LET results == [i \in 1..Len(zone_results) |->
                           LET matching_trips == MatchingTrips(zone_results[i], trip_results)
                           IN  IF Len(matching_trips) > 0
                               THEN Q10StatsRow(zone_results[i], matching_trips)
                               ELSE Q10EmptyRow(zone_results[i])]
         IN  DataFrame(Q10RowColumns,
                       SortBy(results,
                              [a, b \in DOMAIN results |-> Q10Before(results[a], results[b])]))

\* What q10 returns for the rows its fetches return
Q10Result(zone_results, trip_results) ==
    IF zone_results = <<>> THEN DataFrame(Q10Columns, <<>>)
    ELSE Q10Frame(zone_results, trip_results)

(* ------------------------------- q11 ---------------------------------- *)

Q11Columns == <<"cross_zone_trip_count">>

Q11ZoneRows(limit) ==
    LET Make(k, a) == [z_zonekey |-> k, z_boundary |-> a]
    IN  {[i \in DOMAIN r |-> Make(r[i][1], r[i][2])] : r \in Rows(limit, StoredPolygonWKT)}

Q11TripRows(limit) ==
    LET Make(k, a) == [t_tripkey |-> k, t_pickuploc |-> a[1], t_dropoffloc |-> a[2]]
    IN  {[i \in DOMAIN r |-> Make(r[i][1], r[i][2])] :
            r \in Rows(limit, StoredPointWKT \X StoredPointWKT)}

\* find_zone: the key of the first zone, in the order of zones, that
\* contains the point; 0 stands for None (keys are positive).
find_zone(zones, point) ==
    LET hits == {i \in 1..Len(zones) : Contains(loads(zones[i].z_boundary), point)}
    IN  IF hits = {} THEN 0
        ELSE zones[CHOOSE i \in hits : \A j \in hits : i <= j].z_zonekey

Q11Frame(count) == DataFrame(Q11Columns, <<[cross_zone_trip_count |-> count]>>)

\* The cross-zone trips counted by q11 (neither fetch came back empty)
Q11Count(zone_results, trip_results) ==
    LET zones == zone_results
        Crosses(t) ==
            LET pickup_zone == find_zone(zones, loads(t.t_pickuploc))
                dropoff_zone == find_zone(zones, loads(t.t_dropoffloc))
            IN  pickup_zone # 0 /\ dropoff_zone # 0 /\ pickup_zone # dropoff_zone
    IN  Len(SelectSeq(trip_results, Crosses))

\* Parsing the pickups, the dropoffs or the zone boundaries raises
Q11ParseRaises(zone_results, trip_results) ==
    /\ zone_results # <<>> /\ trip_results # <<>>
    /\ \/ ApplyLoadsRaises(trip_results, "t_pickuploc")
       \/ ApplyLoadsRaises(trip_results, "t_dropoffloc")
       \/ ApplyLoadsRaises(zone_results, "z_boundary")

\* What q11 returns for the rows its fetches return
Q11Result(zone_results, trip_results) ==
    IF zone_results = <<>> THEN Q11Frame(0)
    ELSE IF trip_results = <<>> THEN Q11Frame(0)
    ELSE Q11Frame(Q11Count(zone_results, trip_results))

(* ---------------------------- the program ---------------------------- *)

SUPPORTED_QUERIES == {"q1", "q2", "q3", "q4", "q6", "q8", "q9", "q10", "q11"}

UNSUPPORTED_QUERIES == {"q5", "q7", "q12"}

VARIABLES
    pc,                \* where the call in progress stands: "idle", "fetch1",
                       \* "fetch2" (about to issue that fetch), "returned", "raised",
                       \* "disconnected" (ended, its runner disconnected once more)
    query,             \* the query function called, "none" when idle
    client,            \* runner.client: "None" or "open"
    opened,            \* MilvusClient(...) constructions made by this call
    closed,            \* client.close() calls made by this call
    fetches,           \* the client.query requests issued by this call, in order
    zone_results,      \* rows fetched from the zone collection
    trip_results,      \* rows fetched from the trip collection
    building_results,  \* rows fetched from the building collection
    result,            \* the DataFrame returned
    error              \* the exception raised

\* The loader script, a process of its own
VARIABLES
    lpc,               \* where the loader stands: "idle", "loop" (main, between two
                       \* tables), "create", "insert", "index" (inside
                       \* load_table_to_milvus), "done", "crashed"
    tables,            \* main: the tables to load, in order
    batch_size,        \* args.batch_size
    existing,          \* the collections the backend held when the loader connected
    collections,       \* the backend: the rows, indexes and load state of each collection
    rows,              \* load_table_to_milvus: the prepared rows
    batch_start,       \* load_table_to_milvus: i, the offset of the next batch
    total_inserted,    \* load_table_to_milvus: rows inserted so far
    geom_idx,          \* load_table_to_milvus: position in config["geometry_cols"]
    ops,               \* the backend operations issued by the loader, in order
    calls,             \* the load_table_to_milvus calls that have returned, in order
    total_rows         \* main: the sum of the values returned

qvars == <<pc, query, client, opened, closed, fetches, zone_results, trip_results,
           building_results, result, error>>

lvars == <<lpc, tables, batch_size, existing, collections, rows, batch_start, total_inserted,
           geom_idx, ops, calls, total_rows>>

vars == <<qvars, lvars>>

NoError == [type |-> "", missing |-> {}]

\* The Milvus functions each unsupported query names as not available
Missing(q) ==
    CASE q = "q5" -> {"ST_ConvexHull", "ST_Collect", "ST_Area"}
      [] q = "q7" -> {"ST_MakeLine", "ST_Length"}
      [] q = "q12" -> {"ST_KNN"}

\* A filter expression: the predicate, the field it is applied to, its argument
FilterExpr(pred, fld, arg) == [pred |-> pred, field |-> fld, arg |-> arg]

\* NoFilter with the containment test handed to the backend
WithinFilter == FilterExpr("GEOM_WITHIN", "t_pickuploc", <<>>)

\* filter_expr = "": no filter
NoFilter == FilterExpr("", "", <<>>)

\* The client.query request that query q issues at step
Request(q, step) ==
    LET Req(c, f, l) == [collection |-> c, filter |-> f, limit |-> l]
        trip == "fetch2"
    IN  CASE q = "q1" ->
               Req("trip", FilterExpr("GEOM_DWITHIN", "t_pickuploc", <<"POINT", CenterX>>),
                   1000000)
          [] q = "q2" /\ step = "fetch1" ->
               Req("zone", FilterExpr("==", "z_name", <<"Coconino County">>), 1)
          [] q = "q2" /\ step = "fetch2" ->
               Req("trip",
                   FilterExpr("GEOM_INTERSECTS", "t_pickuploc", zone_results[1].z_boundary),
                   10000000)
          [] q = "q3" ->
               Req("trip", FilterExpr("GEOM_DWITHIN", "t_pickuploc", <<"POLYGON", 0, GridMax>>),
                   10000000)
          [] q = "q4" /\ step = "fetch1" -> Req("trip", NoFilter, 10000000)
          [] q = "q4" /\ step = "fetch2" -> Req("zone", NoFilter, 100000)
          [] q = "q6" /\ step = "fetch1" ->
               Req("zone", FilterExpr("GEOM_INTERSECTS", "z_boundary", <<"POLYGON", 0, GridMax>>),
                   100000)
          [] q = "q6" /\ step = "fetch2" -> Req("trip", NoFilter, 10000000)
          [] q = "q8" /\ step = "fetch1" -> Req("building", NoFilter, 1000000)
          [] q = "q8" /\ step = "fetch2" -> Req("trip", NoFilter, 10000000)
          [] q = "q9" -> Req("building", NoFilter, 1000000)
          [] q = "q10" /\ step = "fetch1" -> Req("zone", NoFilter, 1000000)
          [] q = "q10" /\ step = "fetch2" -> Req("trip", NoFilter, 10000000)
          [] q = "q11" /\ step = "fetch1" -> Req("zone", NoFilter, 1000000)
          [] q = "q11" /\ step = "fetch2" -> Req("trip", NoFilter, 10000000)

\* The loader before main runs
LoaderInit ==
    /\ lpc = "idle"
    /\ tables = <<>>
    /\ batch_size = 0
    /\ existing = {}
    /\ collections = <<>>
    /\ rows = <<>>
    /\ batch_start = 0
    /\ total_inserted = 0
    /\ geom_idx = 0
    /\ ops = <<>>
    /\ calls = <<>>
    /\ total_rows = 0

Init ==
    /\ LoaderInit
    /\ pc = "idle"
    /\ query = "none"
    /\ client = "None"
    /\ opened = 0
    /\ closed = 0
    /\ fetches = <<>>
    /\ zone_results = <<>>
    /\ trip_results = <<>>
    /\ building_results = <<>>
    /\ result = NoFrame
    /\ error = NoError

\* Unsupported with the prologue of the supported queries: it connects
\* (and disconnects) before it raises
UnsupportedAfterConnect(q) ==
    /\ pc = "idle"
    /\ query' = q
    /\ pc' = "raised"
    /\ error' = [type |-> "NotImplementedError", missing |-> Missing(q)]
    /\ opened' = opened + 1
    /\ closed' = closed + 1
    /\ UNCHANGED <<client, fetches, zone_results, trip_results, building_results, result>>
    /\ UNCHANGED lvars

\* q5, q7, q12: raise NotImplementedError, naming the missing functions
Unsupported(q) ==
    /\ pc = "idle"
    /\ query' = q
    /\ pc' = "raised"
    /\ error' = [type |-> "NotImplementedError", missing |-> Missing(q)]
    /\ UNCHANGED <<client, opened, closed, fetches, zone_results, trip_results,
                   building_results, result>>
    /\ UNCHANGED lvars

q5 == Unsupported("q5")

q7 == Unsupported("q7")

q12 == Unsupported("q12")

\* runner = _get_runner(data_paths): a new runner, connected
get_runner ==
    /\ pc = "idle"
    /\ \E q \in SUPPORTED_QUERIES : query' = q
    /\ client' = "open"
    /\ opened' = opened + 1
    /\ pc' = "fetch1"
    /\ UNCHANGED <<closed, fetches, zone_results, trip_results, building_results,
                   result, error>>
    /\ UNCHANGED lvars

\* MilvusClient(uri=...) raises inside _get_runner: the query's try block is
\* never entered
connect_fails ==
    /\ pc = "idle"
    /\ \E q \in SUPPORTED_QUERIES : query' = q
    /\ pc' = "raised"
    /\ error' = [type |-> "MilvusException", missing |-> {}]
    /\ UNCHANGED <<client, opened, closed, fetches, zone_results, trip_results,
                   building_results, result>>
    /\ UNCHANGED lvars

\* disconnect without the test of self.client
disconnect_unguarded ==
    /\ client' = "None"
    /\ closed' = closed + 1

\* runner.disconnect()
disconnect ==
    /\ client' = "None"
    /\ closed' = IF client = "open" THEN closed + 1 ELSE closed

\* The numbers of rows of the collection that can match the filter of a
\* request when it returned n rows under the given limit: a fetch that
\* returned fewer rows than its limit returned every matching row; one that
\* stopped at its limit may have left rows behind.
Matching(n, limit) == IF n = limit THEN n..MaxRows ELSE {n}

\* runner._query(...) at the current step; the request is logged with the
\* number of rows it returned (-1: it raised) and the number of rows that
\* matched its filter in the collection
Query(n) ==
    \E m \in Matching(n, Request(query, pc).limit) :
        fetches' = Append(fetches, [request |-> Request(query, pc), returned |-> n,
                                    matching |-> m])

\* return frame, through the finally clause
Return(frame) ==
    /\ pc' = "returned"
    /\ result' = frame
    /\ disconnect
    /\ UNCHANGED <<query, opened, error>>
    /\ UNCHANGED lvars

\* An exception leaves the query through the finally clause
Raise(type) ==
    /\ pc' = "raised"
    /\ error' = [type |-> type, missing |-> {}]
    /\ disconnect
    /\ UNCHANGED <<query, opened, result>>
    /\ UNCHANGED lvars

\* The call goes on to its second fetch
Continue ==
    /\ pc' = "fetch2"
    /\ UNCHANGED <<query, client, opened, closed, result, error>>
    /\ UNCHANGED lvars

\* fetch_fails with the exception caught and an empty frame returned
fetch_fails_swallowed ==
    /\ pc \in {"fetch1", "fetch2"}
    /\ Query(-1)
    /\ pc' = "returned"
    /\ result' = DataFrame(<<>>, <<>>)
    /\ disconnect
    /\ UNCHANGED <<query, opened, zone_results, trip_results, building_results, error>>
    /\ UNCHANGED lvars

\* client.query raises: the exception leaves the query through the finally clause
fetch_fails ==
    /\ pc \in {"fetch1", "fetch2"}
    /\ Query(-1)
    /\ pc' = "raised"
    /\ error' = [type |-> "MilvusException", missing |-> {}]
    /\ disconnect
    /\ UNCHANGED <<query, opened, zone_results, trip_results, building_results, result>>
    /\ UNCHANGED lvars

q1 ==
    /\ pc = "fetch1" /\ query = "q1"
    /\ \E results \in Q1TripRows(1000000) :
          /\ Query(Len(results))
          /\ trip_results' = results
          /\ IF Q1ParseRaises(results) THEN Raise("GEOSException")
             ELSE Return(Q1Frame(results))
    /\ UNCHANGED <<zone_results, building_results>>

q2_zone ==
    /\ pc = "fetch1" /\ query = "q2"
    /\ \E results \in Q2ZoneRows(1) :
          /\ Query(Len(results))
          /\ zone_results' = results
          /\ IF results = <<>> THEN Return(Q2Result(results, <<>>)) ELSE Continue
    /\ UNCHANGED <<trip_results, building_results>>

q2_trip ==
    /\ pc = "fetch2" /\ query = "q2"
    /\ \E results \in Q2TripRows(10000000, zone_results[1].z_boundary) :
          /\ Query(Len(results))
          /\ trip_results' = results
          /\ Return(Q2Result(zone_results, results))
    /\ UNCHANGED <<zone_results, building_results>>

q3 ==
    /\ pc = "fetch1" /\ query = "q3"
    /\ \E results \in Q3TripRows(10000000) :
          /\ Query(Len(results))
          /\ trip_results' = results
          /\ Return(Q3Frame(results))
    /\ UNCHANGED <<zone_results, building_results>>

q4_trip ==
    /\ pc = "fetch1" /\ query = "q4"
    /\ \E results \in Q4TripRows(10000000) :
          /\ Query(Len(results))
          /\ trip_results' = results
          /\ IF results = <<>> THEN Return(Q4Result(results, <<>>)) ELSE Continue
    /\ UNCHANGED <<zone_results, building_results>>

q4_zone ==
    /\ pc = "fetch2" /\ query = "q4"
    /\ \E results \in ZoneRows(100000) :
          /\ Query(Len(results))
          /\ zone_results' = results
          /\ IF Q4ParseRaises(trip_results, results) THEN Raise("GEOSException")
             ELSE Return(Q4Result(trip_results, results))
    /\ UNCHANGED <<trip_results, building_results>>

q6_zone ==
    /\ pc = "fetch1" /\ query = "q6"
    /\ \E results \in Q6ZoneRows(100000) :
          /\ Query(Len(results))
          /\ zone_results' = results
          /\ IF results = <<>> THEN Return(Q6Result(results, <<>>)) ELSE Continue
    /\ UNCHANGED <<trip_results, building_results>>

q6_trip ==
    /\ pc = "fetch2" /\ query = "q6"
    /\ \E results \in Q6TripRows(10000000) :
          /\ Query(Len(results))
          /\ trip_results' = results
          /\ IF Q6ParseRaises(zone_results, results) THEN Raise("GEOSException")
             ELSE Return(Q6Result(zone_results, results))
    /\ UNCHANGED <<zone_results, building_results>>

q8_building ==
    /\ pc = "fetch1" /\ query = "q8"
    /\ \E results \in Q8BuildingRows(1000000) :
          /\ Query(Len(results))
          /\ building_results' = results
          /\ IF results = <<>> THEN Return(Q8Result(results, <<>>)) ELSE Continue
    /\ UNCHANGED <<zone_results, trip_results>>

q8_trip ==
    /\ pc = "fetch2" /\ query = "q8"
    /\ \E results \in Q8TripRows(10000000) :
          /\ Query(Len(results))
          /\ trip_results' = results
          /\ IF Q8ParseRaises(building_results, results) THEN Raise("GEOSException")
             ELSE Return(Q8Result(building_results, results))
    /\ UNCHANGED <<zone_results, building_results>>

q9 ==
    /\ pc = "fetch1" /\ query = "q9"
    /\ \E results \in Q9BuildingRows(1000000) :
          /\ Query(Len(results))
          /\ building_results' = results
          /\ IF Q9ParseRaises(results) THEN Raise("GEOSException")
             ELSE Return(Q9Frame(results))
    /\ UNCHANGED <<zone_results, trip_results>>

q10_zone ==
    /\ pc = "fetch1" /\ query = "q10"
    /\ \E results \in ZoneRows(1000000) :
          /\ Query(Len(results))
          /\ zone_results' = results
          /\ IF results = <<>> THEN Return(Q10Result(results, <<>>)) ELSE Continue
    /\ UNCHANGED <<trip_results, building_results>>

q10_trip ==
    /\ pc = "fetch2" /\ query = "q10"
    /\ \E results \in Q10TripRows(10000000) :
          /\ Query(Len(results))
          /\ trip_results' = results
          /\ IF Q10ParseRaises(zone_results, results) THEN Raise("GEOSException")
             ELSE Return(Q10Result(zone_results, results))
    /\ UNCHANGED <<zone_results, building_results>>

q11_zone ==
    /\ pc = "fetch1" /\ query = "q11"
    /\ \E results \in Q11ZoneRows(1000000) :
          /\ Query(Len(results))
          /\ zone_results' = results
          /\ IF results = <<>> THEN Return(Q11Result(results, <<>>)) ELSE Continue
    /\ UNCHANGED <<trip_results, building_results>>

q11_trip ==
    /\ pc = "fetch2" /\ query = "q11"
    /\ \E results \in Q11TripRows(10000000) :
          /\ Query(Len(results))
          /\ trip_results' = results
          /\ IF Q11ParseRaises(zone_results, results) THEN Raise("GEOSException")
             ELSE Return(Q11Result(zone_results, results))
    /\ UNCHANGED <<zone_results, building_results>>

\* runner.disconnect() once more, on the runner of a call that has ended:
\* the call's locals are gone, the frame or the exception is with the caller
disconnect_again ==
    /\ pc \in {"returned", "raised"}
    /\ opened = 1
    /\ pc' = "disconnected"
    /\ disconnect
    /\ fetches' = <<>>
    /\ zone_results' = <<>>
    /\ trip_results' = <<>>
    /\ building_results' = <<>>
    /\ result' = NoFrame
    /\ error' = NoError
    /\ UNCHANGED <<query, opened>>
    /\ UNCHANGED lvars

\* The caller takes the DataFrame or the exception; the runner and the
\* fetched rows are discarded.
Done ==
    /\ pc \in {"returned", "raised", "disconnected"}
    /\ pc' = "idle"
    /\ query' = "none"
    /\ client' = "None"
    /\ opened' = 0
    /\ closed' = 0
    /\ fetches' = <<>>
    /\ zone_results' = <<>>
    /\ trip_results' = <<>>
    /\ building_results' = <<>>
    /\ result' = NoFrame
    /\ error' = NoError
    /\ UNCHANGED lvars

Next ==
    \/ q5 \/ q7 \/ q12
    \/ get_runner \/ connect_fails \/ fetch_fails
    \/ q1
    \/ q2_zone \/ q2_trip
    \/ q3
    \/ q4_trip \/ q4_zone
    \/ q6_zone \/ q6_trip
    \/ q8_building \/ q8_trip
    \/ q9
    \/ q10_zone \/ q10_trip
    \/ q11_zone \/ q11_trip
    \/ disconnect_again
    \/ Done

Spec == Init /\ [][Next]_vars

(* ------------------------------ the loader ---------------------------- *)

MaxTables == 2

MaxLoad == 3

MaxBatch == 2

\* TABLE_CONFIGS[t]["geometry_cols"]
geometry_cols(t) ==
    CASE t = "trip" -> <<"t_pickuploc", "t_dropoffloc">>
      [] t = "building" -> <<"b_boundary">>
      [] t = "zone" -> <<"z_boundary">>
      [] OTHER -> <<>>

\* The tables loaded here: one without a geometry column, one with one, one
\* with two
LoaderTables == {"customer", "zone", "trip"}

\* args.tables: up to MaxTables tables
TableLists ==
    UNION {{ts \in [1..n -> LoaderTables] : \A a, b \in 1..n : a # b => ts[a] # ts[b]} :
             n \in 1..MaxTables}

\* args.batch_size: any int
BatchSizes == -1..MaxBatch

\* A collection left by an earlier run
OldCollection == [rows |-> <<0>>, indexes |-> {}, loaded |-> TRUE]

\* A collection as create_collection leaves it
NewCollection == [rows |-> <<>>, indexes |-> {}, loaded |-> FALSE]

\* A backend operation on the collection of table t; ok: it did not raise
Op(op, t, arg, ok) == [op |-> op, table |-> t, arg |-> arg, ok |-> ok]

\* for table in tables: the table main is at
table == tables[Len(calls) + 1]

\* prepare_row_data(df, table_name) for a frame of n rows: one record for
\* each row, in the order of the frame
prepare_row_data(n) == [k \in 1..n |-> k]

\* rows[i:i + batch_size] taken from the row after i
SliceFromNext(rs, k, b) ==
    SubSeq(rs, k + 2, IF k + b < Len(rs) THEN k + b ELSE Len(rs))

\* rows[i:i + batch_size]
Slice(rs, k, b) ==
    SubSeq(rs, k + 1, IF k + b < Len(rs) THEN k + b ELSE Len(rs))

\* main up to the loop over the tables: the arguments and the connection
main ==
    /\ lpc = "idle"
    /\ \E ts \in TableLists, b \in BatchSizes, ex \in SUBSET LoaderTables :
          /\ tables' = ts
          /\ batch_size' = b
          /\ existing' = ex
          /\ collections' = [n \in ex |-> OldCollection]
    /\ lpc' = "loop"
    /\ UNCHANGED <<rows, batch_start, total_inserted, geom_idx, ops, calls, total_rows>>
    /\ UNCHANGED qvars

\* main leaves by sys.exit(1): no data directory, or an unknown table
main_exits ==
    /\ lpc = "idle"
    /\ lpc' = "exited"
    /\ UNCHANGED <<tables, batch_size, existing, collections, rows, batch_start, total_inserted,
                   geom_idx, ops, calls, total_rows>>
    /\ UNCHANGED qvars

\* return n to main, which adds it to total_rows and goes to the next table
ReturnRows(n, found) ==
    /\ calls' = Append(calls, [table |-> table, found |-> found, returned |-> n])
    /\ total_rows' = total_rows + n
    /\ lpc' = "loop"

\* load_table_no_data with the existing collection dropped before the data
\* is looked for
load_table_no_data_after_drop ==
    /\ lpc = "loop" /\ Len(calls) < Len(tables)
    /\ ReturnRows(0, FALSE)
    /\ collections' = [n \in DOMAIN collections \ {table} |-> collections[n]]
    /\ UNCHANGED <<tables, batch_size, existing, rows, batch_start, total_inserted,
                   geom_idx, ops>>
    /\ UNCHANGED qvars

\* load_table_to_milvus, get_parquet_path returns None: return 0
load_table_no_data ==
    /\ lpc = "loop" /\ Len(calls) < Len(tables)
    /\ ReturnRows(0, FALSE)
    /\ UNCHANGED <<tables, batch_size, existing, collections, rows, batch_start, total_inserted,
                   geom_idx, ops>>
    /\ UNCHANGED qvars

\* load_table_to_milvus, data found: the frame is read, the existing
\* collection is dropped
drop_existing ==
    /\ lpc = "loop" /\ Len(calls) < Len(tables)
    /\ IF table \in DOMAIN collections
       THEN /\ ops' = ops \o <<Op("has_collection", table, <<>>, TRUE),
                               Op("drop_collection", table, <<>>, TRUE)>>
            /\ collections' = [n \in DOMAIN collections \ {table} |-> collections[n]]
       ELSE /\ ops' = Append(ops, Op("has_collection", table, <<>>, TRUE))
            /\ UNCHANGED collections
    /\ lpc' = "create"
    /\ UNCHANGED <<tables, batch_size, existing, rows, batch_start, total_inserted, geom_idx,
                   calls, total_rows>>
    /\ UNCHANGED qvars

\* create_collection, rows = prepare_row_data(...), total_inserted = 0 and
\* the range of the batch loop: range raises ValueError for a step of 0 and
\* is empty for a negative step
create_collection ==
    /\ lpc = "create"
    /\ ops' = Append(ops, Op("create_collection", table, <<>>, TRUE))
    /\ collections' = [n \in DOMAIN collections \cup {table} |->
                          IF n = table THEN NewCollection ELSE collections[n]]
    /\ \E n \in 0..MaxLoad :
          /\ rows' = prepare_row_data(n)
          /\ lpc' = CASE batch_size = 0 -> "crashed"
                      [] batch_size > 0 /\ n > 0 -> "insert"
                      [] OTHER -> "index"
    /\ batch_start' = 0
    /\ total_inserted' = 0
    /\ geom_idx' = 1
    /\ UNCHANGED <<tables, batch_size, existing, calls, total_rows>>
    /\ UNCHANGED qvars

\* One turn of the batch loop
insert_batch ==
    /\ lpc = "insert"
    /\ LET batch == Slice(rows, batch_start, batch_size)
       IN  /\ ops' = Append(ops, Op("insert", table, batch, TRUE))
           /\ collections' = [collections EXCEPT ![table].rows = @ \o batch]
           /\ total_inserted' = total_inserted + Len(batch)
    /\ batch_start' = batch_start + batch_size
    /\ lpc' = IF batch_start + batch_size < Len(rows) THEN "insert" ELSE "index"
    /\ UNCHANGED <<tables, batch_size, existing, rows, geom_idx, calls, total_rows>>
    /\ UNCHANGED qvars

\* create_index with its exception left uncaught
create_index_uncaught ==
    /\ lpc = "index" /\ geom_idx <= Len(geometry_cols(table))
    /\ LET geom_col == geometry_cols(table)[geom_idx]
       IN  \E ok \in BOOLEAN :
              /\ ops' = Append(ops, Op("create_index", table, <<geom_col>>, ok))
              /\ collections' = IF ok THEN [collections EXCEPT ![table].indexes =
                                                                @ \cup {geom_col}]
                                ELSE collections
              /\ lpc' = IF ok THEN "index" ELSE "crashed"
    /\ geom_idx' = geom_idx + 1
    /\ UNCHANGED <<tables, batch_size, existing, rows, batch_start, total_inserted, calls,
                   total_rows>>
    /\ UNCHANGED qvars

\* One turn of the loop over the geometry columns: create_index, its
\* exception caught and printed
create_index ==
    /\ lpc = "index" /\ geom_idx <= Len(geometry_cols(table))
    /\ LET geom_col == geometry_cols(table)[geom_idx]
       IN  \E ok \in BOOLEAN :
              /\ ops' = Append(ops, Op("create_index", table, <<geom_col>>, ok))
              /\ collections' = IF ok THEN [collections EXCEPT ![table].indexes =
                                                                @ \cup {geom_col}]
                                ELSE collections
    /\ geom_idx' = geom_idx + 1
    /\ UNCHANGED <<lpc, tables, batch_size, existing, rows, batch_start, total_inserted, calls,
                   total_rows>>
    /\ UNCHANGED qvars

\* load_collection and return total_inserted
load_collection ==
    /\ lpc = "index" /\ geom_idx > Len(geometry_cols(table))
    /\ ops' = Append(ops, Op("load_collection", table, <<>>, TRUE))
    /\ collections' = [collections EXCEPT ![table].loaded = TRUE]
    /\ ReturnRows(total_inserted, TRUE)
    /\ UNCHANGED <<tables, batch_size, existing, rows, batch_start, total_inserted, geom_idx>>
    /\ UNCHANGED qvars

\* has_collection, create_collection, insert or load_collection raises:
\* nothing catches it, main ends with the exception
load_fails ==
    /\ \/ lpc = "loop" /\ Len(calls) < Len(tables)
       \/ lpc \in {"create", "insert"}
       \/ lpc = "index" /\ geom_idx > Len(geometry_cols(table))
    /\ ops' = Append(ops,
                 CASE lpc = "loop" -> Op("has_collection", table, <<>>, FALSE)
                   [] lpc = "create" -> Op("create_collection", table, <<>>, FALSE)
                   [] lpc = "insert" ->
                        Op("insert", table, Slice(rows, batch_start, batch_size), FALSE)
                   [] lpc = "index" -> Op("load_collection", table, <<>>, FALSE))
    /\ lpc' = "crashed"
    /\ UNCHANGED <<tables, batch_size, existing, collections, rows, batch_start, total_inserted,
                   geom_idx, calls, total_rows>>
    /\ UNCHANGED qvars

\* main after the loop: the collections are listed, the client is closed
main_end ==
    /\ lpc = "loop" /\ Len(calls) = Len(tables)
    /\ ops' = ops \o <<Op("list_collections", "", <<>>, TRUE), Op("close", "", <<>>, TRUE)>>
    /\ lpc' = "done"
    /\ UNCHANGED <<tables, batch_size, existing, collections, rows, batch_start, total_inserted,
                   geom_idx, calls, total_rows>>
    /\ UNCHANGED qvars

\* The loader process has ended; the next run starts afresh
LoaderDone ==
    /\ lpc \in {"done", "crashed", "exited"}
    /\ lpc' = "idle"
    /\ tables' = <<>>
    /\ batch_size' = 0
    /\ existing' = {}
    /\ collections' = <<>>
    /\ rows' = <<>>
    /\ batch_start' = 0
    /\ total_inserted' = 0
    /\ geom_idx' = 0
    /\ ops' = <<>>
    /\ calls' = <<>>
    /\ total_rows' = 0
    /\ UNCHANGED qvars

LoaderNext ==
    \/ main \/ main_exits
    \/ load_table_no_data
    \/ drop_existing \/ create_collection \/ insert_batch
    \/ create_index \/ load_collection
    \/ load_fails
    \/ main_end
    \/ LoaderDone

LoaderSpec == Init /\ [][LoaderNext]_vars

(* ------------------------------ properties --------------------------- *)

\* The rows a returned q10 call has in its result for zone row z
Q10RowsOf(z) == {i \in 1..Len(result.rows) : result.rows[i].z_zonekey = z.z_zonekey}

\* C1: a call of q5, q7 or q12 ends in the unsupported-query error
\* (NotImplementedError) naming the Milvus functions that are missing; no
\* connection was opened and no fetch was issued, whatever ran before.
C1_UnsupportedFailsFast ==
    query \in UNSUPPORTED_QUERIES =>
        /\ pc = "raised"
        /\ error.type = "NotImplementedError"
        /\ query = "q5" => error.missing = {"ST_ConvexHull", "ST_Collect", "ST_Area"}
        /\ query = "q7" => error.missing = {"ST_MakeLine", "ST_Length"}
        /\ query = "q12" => error.missing = {"ST_KNN"}
        /\ opened = 0 /\ closed = 0 /\ client = "None"
        /\ fetches = <<>>
        /\ result = NoFrame

C1_Witness == query = "q12" /\ pc = "raised" /\ error.missing = {"ST_KNN"}

\* The three-way branch of the IoU, and no division by zero
IoUBranch(area1, area2, overlap_area, iou) ==
    LET unionArea == area1 + area2 - overlap_area
    IN  /\ unionArea > 0 => iou = Div(overlap_area, unionArea)
        /\ (unionArea = 0 /\ overlap_area > 0) => iou = Float(1)
        /\ (unionArea = 0 /\ overlap_area = 0) => iou = Float(0)
        /\ iou.den # 0

\* C2: every row q9 reports has its iou by the three-way branch on
\* unionArea = area1 + area2 - overlap_area, without a division by zero;
\* and so has the IoU of any areas q9 could be handed.
C2_IoUThreeWay ==
    query = "q9" =>
        /\ \A i \in 1..Len(result.rows) :
              LET r == result.rows[i]
              IN  IoUBranch(r.area1, r.area2, r.overlap_area, r.iou)
        /\ \A a1 \in 0..GridMax, a2 \in 0..GridMax, ov \in 0..GridMax :
              IoUBranch(a1, a2, ov, IoU(ov, a1 + a2 - ov))

\* q9 reported a pair with a positive overlap and a positive union
C2_Witness ==
    /\ pc = "returned" /\ query = "q9"
    /\ \E i \in 1..Len(result.rows) :
          /\ result.rows[i].overlap_area > 0
          /\ result.rows[i].area1 + result.rows[i].area2 > 2 * result.rows[i].overlap_area

\* C3: q10, given at least one zone, returns exactly one row per fetched
\* zone, whatever the trips (none included).
C3_OuterJoinRetention ==
    (pc = "returned" /\ query = "q10" /\ zone_results # <<>>) =>
        /\ Len(result.rows) = Len(zone_results)
        /\ \A j \in 1..Len(zone_results) : Cardinality(Q10RowsOf(zone_results[j])) = 1

\* q10 returned for several zones of which exactly one has matching trips
C3_Witness ==
    /\ pc = "returned" /\ query = "q10"
    /\ Len(zone_results) = MaxRows
    /\ Len(result.rows) = MaxRows
    /\ Cardinality({i \in 1..Len(result.rows) : result.rows[i].num_trips # Float(0)}) = 1
    /\ Cardinality({i \in 1..Len(result.rows) : result.rows[i].avg_duration.nan})
         = MaxRows - 1

\* The rows of the zones no fetched trip starts in
Q10Unmatched == {j \in 1..Len(zone_results) :
                    MatchingTrips(zone_results[j], trip_results) = <<>>}

\* C4 as stated: the row of a zone without matching trips has its identity
\* columns and "no value" in all of avg_duration, avg_distance and num_trips.
C4_AllAggregatesNoValue ==
    (pc = "returned" /\ query = "q10") =>
        \A j \in Q10Unmatched : \A i \in Q10RowsOf(zone_results[j]) :
            /\ result.rows[i].pickup_zone = zone_results[j].z_name
            /\ result.rows[i].avg_duration.nan
            /\ result.rows[i].avg_distance.nan
            /\ result.rows[i].num_trips.nan

\* C4 amended: the row of a zone without matching trips has its identity
\* columns, "no value" in avg_duration and avg_distance, and 0 in num_trips.
C4_AveragesNoValueCountZero ==
    (pc = "returned" /\ query = "q10") =>
        \A j \in Q10Unmatched :
            /\ Q10RowsOf(zone_results[j]) # {}
            /\ \A i \in Q10RowsOf(zone_results[j]) :
                  /\ result.rows[i].pickup_zone = zone_results[j].z_name
                  /\ result.rows[i].avg_duration.nan
                  /\ result.rows[i].avg_distance.nan
                  /\ result.rows[i].num_trips = Float(0)

\* q10 returned, with trips fetched, a row for a zone none of them starts in
C4_Witness ==
    /\ pc = "returned" /\ query = "q10"
    /\ trip_results # <<>>
    /\ Q10Unmatched # {}
    /\ \E i \in 1..Len(result.rows) : result.rows[i].num_trips # Float(0)

\* The rows in ascending order of their primary key
ByKey(rs, key) == SortBy(rs, [a, b \in DOMAIN rs |-> rs[a][key] < rs[b][key]])

\* C5 as stated: the frame q1, q3, q4, q6, q8, q9 or q10 returns is the one
\* it returns when the backend hands over the same rows in key order, so
\* it is the same for every order of the same rows.
C5_SameFrameForEveryOrder ==
    pc = "returned" =>
        /\ query = "q1" => result = Q1Frame(ByKey(trip_results, "t_tripkey"))
        /\ query = "q3" => result = Q3Frame(ByKey(trip_results, "t_tripkey"))
        /\ query = "q4" => result = Q4Result(ByKey(trip_results, "t_tripkey"),
                                             ByKey(zone_results, "z_zonekey"))
        /\ query = "q6" => result = Q6Result(ByKey(zone_results, "z_zonekey"),
                                             ByKey(trip_results, "t_tripkey"))
        /\ query = "q8" => result = Q8Result(ByKey(building_results, "b_buildingkey"),
                                             ByKey(trip_results, "t_tripkey"))
        /\ query = "q9" => result = Q9Frame(ByKey(building_results, "b_buildingkey"))
        /\ query = "q10" => result = Q10Result(ByKey(zone_results, "z_zonekey"),
                                               ByKey(trip_results, "t_tripkey"))

\* C6: in q10's result no row without an avg_duration comes before a row
\* with one; rows with one are in descending avg_duration, then ascending
\* z_zonekey; rows without are in ascending z_zonekey.
C6_NoValueSortsLast ==
    (pc = "returned" /\ query = "q10") =>
        \A i, j \in 1..Len(result.rows) :
            i < j =>
                LET a == result.rows[i]
                    b == result.rows[j]
                IN  /\ a.avg_duration.nan => b.avg_duration.nan
                    /\ (~a.avg_duration.nan /\ ~b.avg_duration.nan) =>
                          \/ FloatLess(b.avg_duration, a.avg_duration)
                          \/ /\ FloatEq(a.avg_duration, b.avg_duration)
                             /\ a.z_zonekey < b.z_zonekey
                    /\ (a.avg_duration.nan /\ b.avg_duration.nan) =>
                          a.z_zonekey < b.z_zonekey

\* q10 returned a row with an avg_duration ahead of a row without one,
\* although the row without has the smaller key and was fetched first
C6_Witness ==
    /\ pc = "returned" /\ query = "q10"
    /\ Len(result.rows) = 2
    /\ ~result.rows[1].avg_duration.nan
    /\ result.rows[2].avg_duration.nan
    /\ result.rows[2].z_zonekey < result.rows[1].z_zonekey
    /\ zone_results[1].z_zonekey = result.rows[2].z_zonekey

\* C7 as stated: the count q11 returns is the one it returns when the zone
\* rows arrive in ascending key order, so it is the same for every order
\* in which the backend returns the zone rows.
C7_SameCountForEveryZoneOrder ==
    (pc = "returned" /\ query = "q11") =>
        result = Q11Result(ByKey(zone_results, "z_zonekey"), trip_results)

\* The per-zone counts of a q4, q6 or q10 result
ZoneCounts ==
    [i \in 1..Len(result.rows) |->
        CASE query = "q4" -> result.rows[i].trip_count
          [] query = "q6" -> result.rows[i].total_pickups
          [] query = "q10" -> result.rows[i].num_trips.num]

\* The trips a zone aggregation considers
TripsConsidered == IF query = "q4" THEN Q4TopTrips(trip_results) ELSE trip_results

\* (trip, zone) pairs with the trip's pickup inside the zone
ContainmentPairs ==
    {p \in (1..Len(TripsConsidered)) \X (1..Len(zone_results)) :
        Contains(loads(zone_results[p[2]].z_boundary),
                 loads(TripsConsidered[p[1]].t_pickuploc))}

\* No pickup lies inside two of the fetched zones
NoSharedPickup ==
    \A p, q \in ContainmentPairs : p[1] = q[1] => p[2] = q[2]

\* C8 as stated: the per-zone counts of q4, q6 and q10 add up to at most
\* the number of trips considered.
C8_CountsWithinTrips ==
    (pc = "returned" /\ query \in {"q4", "q6", "q10"}) =>
        SumSeq(ZoneCounts) <= Len(TripsConsidered)

\* C8 amended: a zone counts every trip whose pickup it contains, so the
\* counts add up to the number of (trip, zone) containment pairs; they add
\* up to at most the number of trips when no pickup lies inside two zones.
C8_CountsAreContainmentPairs ==
    (pc = "returned" /\ query \in {"q4", "q6", "q10"}) =>
        /\ SumSeq(ZoneCounts) = Cardinality(ContainmentPairs)
        /\ NoSharedPickup => SumSeq(ZoneCounts) <= Len(TripsConsidered)

\* A zone aggregation returned counts that add up to more than its trips
C8_Witness ==
    /\ pc = "returned" /\ query \in {"q4", "q6", "q10"}
    /\ SumSeq(ZoneCounts) > Len(TripsConsidered)
    /\ ~NoSharedPickup

\* C9 as stated: every row of q9 lists the lower key first, and no
\* unordered pair of buildings is in two rows.
C9_LowerKeyFirst ==
    (pc = "returned" /\ query = "q9") =>
        /\ \A i \in 1..Len(result.rows) :
              result.rows[i].building_1 < result.rows[i].building_2
        /\ \A i, j \in 1..Len(result.rows) :
              i # j => {result.rows[i].building_1, result.rows[i].building_2}
                         # {result.rows[j].building_1, result.rows[j].building_2}

\* A fetch of the call came back empty
EmptyInput == \E i \in 1..Len(fetches) : fetches[i].returned = 0

\* The columns of a query's result that has rows
NonEmptyColumns(q) ==
    CASE q = "q1" -> Q1RowColumns
      [] q = "q2" -> Q2Columns
      [] q = "q3" -> Q3RowColumns
      [] q = "q4" -> Q4RowColumns
      [] q = "q6" -> Q6RowColumns
      [] q = "q8" -> Q8RowColumns
      [] q = "q9" -> Q9RowColumns
      [] q = "q10" -> Q10RowColumns
      [] q = "q11" -> Q11Columns

\* The single zero-valued row of the count queries
ZeroRow(q) ==
    IF q = "q2" THEN [trip_count_in_coconino_county |-> 0]
    ELSE [cross_zone_trip_count |-> 0]

\* C10 as stated, read in the query's favour: when a fetch comes back
\* empty the query raises nothing and returns a frame with the columns of
\* its non-empty result and no rows (q2, q11: the single zero-valued row;
\* q10 with zones but no trips: the zero-trip row of every zone).
C10_EmptyInputWellFormed ==
    EmptyInput =>
        /\ pc = "returned" /\ error = NoError
        /\ result.columns = NonEmptyColumns(query)
        /\ IF query \in {"q2", "q11"} THEN result.rows = <<ZeroRow(query)>>
           ELSE IF query = "q10" /\ zone_results # <<>>
           THEN /\ Len(result.rows) = Len(zone_results)
                /\ \A j \in 1..Len(zone_results) :
                      \E i \in 1..Len(result.rows) :
                          result.rows[i] = Q10EmptyRow(zone_results[j])
           ELSE result.rows = <<>>

(* ------------------------------ row limits --------------------------- *)

\* A fetch that stopped at its row limit and left matching rows behind
Truncated(f) == f.returned = f.request.limit /\ f.matching > f.returned

\* C11 as stated: every fetch carries an explicit row limit, and no query
\* returns a result after one of its fetches stopped at its limit without
\* having returned every matching row.
C11_NoSilentTruncation ==
    /\ \A i \in 1..Len(fetches) : fetches[i].request.limit >= 1
    /\ pc = "returned" => \A i \in 1..Len(fetches) : ~Truncated(fetches[i])

(* -------------------------- malformed geometry ------------------------ *)

\* The rows whose geometry fields all parse
ParsableRows(rs, flds) ==
    LET Ok(r) == \A f \in flds : loads(r[f]) # ParseError
    IN  SelectSeq(rs, Ok)

\* The frame of the call in progress when the fetched rows that hold
\* unparseable geometry are left out
ResultWithoutMalformed ==
    LET trips == ParsableRows(trip_results, {"t_pickuploc"})
        zones == ParsableRows(zone_results, {"z_boundary"})
        buildings == ParsableRows(building_results, {"b_boundary"})
    IN  CASE query = "q1" -> Q1Frame(trips)
          [] query = "q4" -> Q4Result(trips, zones)
          [] query = "q6" -> Q6Result(zones, trips)
          [] query = "q8" -> Q8Result(buildings, trips)
          [] query = "q9" -> Q9Frame(buildings)
          [] query = "q10" -> Q10Result(zones, trips)
          [] query = "q11" ->
               Q11Result(zones, ParsableRows(trip_results, {"t_pickuploc", "t_dropoffloc"}))

\* C12 as stated: a query whose fetches all succeeded completes, whatever
\* geometry text the rows hold, with the result computed from the rows
\* whose geometry parses.
C12_MalformedRowExcluded ==
    (/\ pc \in {"returned", "raised"}
     /\ query \in {"q1", "q4", "q6", "q8", "q9", "q10", "q11"}
     /\ error.type # "MilvusException") =>
        /\ pc = "returned"
        /\ result = ResultWithoutMalformed

(* --------------------------- boundary policy -------------------------- *)

\* The coordinate of a trip's point, and the ends of a zone's boundary
XOf(t, fld) == t[fld][2]

LoOf(z) == z.z_boundary[2]

HiOf(z) == z.z_boundary[3]

\* The point lies in the interior of the zone
StrictlyInside(z, t, fld) ==
    z.z_boundary[1] = "POLYGON" /\ LoOf(z) < XOf(t, fld) /\ XOf(t, fld) < HiOf(z)

\* The point lies on the boundary of the zone
OnBoundary(z, t, fld) ==
    z.z_boundary[1] = "POLYGON" /\ XOf(t, fld) \in {LoOf(z), HiOf(z)}

\* The considered trips whose pickup lies in the interior of the zone
PickupsInside(z) ==
    {k \in 1..Len(TripsConsidered) : StrictlyInside(z, TripsConsidered[k], "t_pickuploc")}

\* The zone q11 is to assign to a point when boundary points are not
\* contained: the first fetched zone with the point in its interior
FirstZoneInside(t, fld) ==
    LET hits == {i \in 1..Len(zone_results) : StrictlyInside(zone_results[i], t, fld)}
    IN  IF hits = {} THEN 0 ELSE CHOOSE i \in hits : \A j \in hits : i <= j

\* On the fallback path a point on the boundary of a polygon is not
\* contained: q4, q6 and q10 count for a zone the pickups in its interior,
\* q11 assigns a point the first zone with the point in its interior.
FallbackExcludesBoundary ==
    /\ query \in {"q4", "q6", "q10"} =>
          /\ \A i \in 1..Len(result.rows) :
                \E j \in 1..Len(zone_results) :
                    /\ zone_results[j].z_zonekey = result.rows[i].z_zonekey
                    /\ ZoneCounts[i] = Cardinality(PickupsInside(zone_results[j]))
          /\ \A j \in 1..Len(zone_results) :
                (\A i \in 1..Len(result.rows) :
                    result.rows[i].z_zonekey # zone_results[j].z_zonekey)
                => (trip_results = <<>> \/ PickupsInside(zone_results[j]) = {})
    /\ (query = "q11" /\ zone_results # <<>> /\ trip_results # <<>>) =>
          result.rows[1].cross_zone_trip_count =
              Cardinality({k \in 1..Len(trip_results) :
                  LET p == FirstZoneInside(trip_results[k], "t_pickuploc")
                      d == FirstZoneInside(trip_results[k], "t_dropoffloc")
                  IN  p # 0 /\ d # 0 /\ p # d})

\* C13 as stated: the fallback queries exclude boundary points, and no
\* trip q2 counts has its pickup on the county's boundary.
C13_BoundaryNeverCounted ==
    pc = "returned" =>
        /\ FallbackExcludesBoundary
        /\ (query = "q2" /\ zone_results # <<>>) =>
              \A k \in 1..Len(trip_results) :
                  ~OnBoundary(zone_results[1], trip_results[k], "t_pickuploc")

\* C13 amended: the fallback queries exclude boundary points; q2 counts
\* every trip the backend returns for GEOM_INTERSECTS, each with its pickup
\* in the interior or on the boundary of the county.
C13_BoundaryPolicyPerPath ==
    pc = "returned" =>
        /\ FallbackExcludesBoundary
        /\ (query = "q2" /\ zone_results # <<>>) =>
              /\ result.rows[1].trip_count_in_coconino_county = Len(trip_results)
              /\ \A k \in 1..Len(trip_results) :
                    \/ StrictlyInside(zone_results[1], trip_results[k], "t_pickuploc")
                    \/ OnBoundary(zone_results[1], trip_results[k], "t_pickuploc")

\* q2 counted a trip whose pickup lies on the county's boundary
C13_Witness ==
    /\ pc = "returned" /\ query = "q2" /\ zone_results # <<>>
    /\ \E k \in 1..Len(trip_results) :
          OnBoundary(zone_results[1], trip_results[k], "t_pickuploc")
    /\ result.rows[1].trip_count_in_coconino_county = Len(trip_results)

(* ---------------------------- fetch failures -------------------------- *)

\* C14: a fetch that raised is the last request of its query (it is not
\* retried and no later fetch is issued); the query has raised the
\* backend's exception and has returned no frame.
C14_FetchFailureFatal ==
    \A i \in 1..Len(fetches) :
        fetches[i].returned = -1 =>
            /\ i = Len(fetches)
            /\ pc = "raised"
            /\ error.type = "MilvusException"
            /\ result = NoFrame

\* The second fetch of a query raised after its first had returned rows
C14_Witness ==
    /\ Len(fetches) = 2
    /\ fetches[1].returned > 0
    /\ fetches[2].returned = -1
    /\ pc = "raised"

(* -------------------------- IoU boundary cases ------------------------ *)

\* The rows q9 reports for the buildings fetched at positions i and j
Q9RowsOf(i, j) ==
    {k \in 1..Len(result.rows) :
        {result.rows[k].building_1, result.rows[k].building_2}
            = {building_results[i].b_buildingkey, building_results[j].b_buildingkey}}

\* The two buildings have the same polygon
SamePolygon(i, j) == building_results[i].b_boundary = building_results[j].b_boundary

\* The two polygons share no point
DisjointPolygons(i, j) ==
    \/ building_results[i].b_boundary[3] < building_results[j].b_boundary[2]
    \/ building_results[j].b_boundary[3] < building_results[i].b_boundary[2]

\* The polygon has no area
ZeroArea(i) == building_results[i].b_boundary[2] = building_results[i].b_boundary[3]

\* C15 as stated: q9 reports two buildings with identical polygons, of
\* zero area or not, with iou 1.0, and reports no iou other than 0.0 for two
\* disjoint polygons.
C15_IdenticalOneDisjointZero ==
    (pc = "returned" /\ query = "q9") =>
        \A i, j \in 1..Len(building_results) :
            i < j =>
                /\ SamePolygon(i, j) =>
                      /\ Q9RowsOf(i, j) # {}
                      /\ \A k \in Q9RowsOf(i, j) : FloatEq(result.rows[k].iou, Float(1))
                /\ DisjointPolygons(i, j) =>
                      \A k \in Q9RowsOf(i, j) : FloatEq(result.rows[k].iou, Float(0))

\* C15 amended: two buildings with identical polygons of positive area are
\* reported with iou 1.0; the iou reported for two identical zero-area
\* polygons is 0.0; two disjoint polygons are not reported at all.
C15_IoUBoundaryCases ==
    (pc = "returned" /\ query = "q9") =>
        \A i, j \in 1..Len(building_results) :
            i < j =>
                /\ (SamePolygon(i, j) /\ ~ZeroArea(i)) =>
                      /\ Cardinality(Q9RowsOf(i, j)) = 1
                      /\ \A k \in Q9RowsOf(i, j) : FloatEq(result.rows[k].iou, Float(1))
                /\ (SamePolygon(i, j) /\ ZeroArea(i)) =>
                      \A k \in Q9RowsOf(i, j) : result.rows[k].iou = Float(0)
                /\ DisjointPolygons(i, j) => Q9RowsOf(i, j) = {}

\* q9 returned for two buildings with the same zero-area polygon
C15_Witness ==
    /\ pc = "returned" /\ query = "q9"
    /\ Len(building_results) = 2
    /\ SamePolygon(1, 2) /\ ZeroArea(1)
    /\ Len(result.rows) = 1

(* ------------------------------ pushdown ------------------------------ *)

\* C16: every filter sent to the backend is empty, the comparison of
\* z_name, GEOM_DWITHIN or GEOM_INTERSECTS; the trip fetches of q4, q6, q10
\* and q11 and the building fetch of q9 carry no filter.
C16_OnlyDWithinAndIntersects ==
    \A i \in 1..Len(fetches) :
        LET r == fetches[i].request
        IN  /\ r.filter.pred \in {"", "==", "GEOM_DWITHIN", "GEOM_INTERSECTS"}
            /\ r.filter.pred = "==" => r.filter.field = "z_name"
            /\ r.filter.pred = "" => r.filter = NoFilter
            /\ (query \in {"q4", "q6", "q10", "q11"} /\ r.collection = "trip") =>
                  r.filter = NoFilter
            /\ (query = "q9" /\ r.collection = "building") => r.filter = NoFilter

\* q6 fetched zones with GEOM_INTERSECTS, then trips without a filter, and
\* counted pickups itself
C16_Witness ==
    /\ pc = "returned" /\ query = "q6"
    /\ Len(fetches) = 2
    /\ fetches[1].request.filter.pred = "GEOM_INTERSECTS"
    /\ fetches[2].request.filter = NoFilter
    /\ result.rows # <<>>

(* ------------------------- connection lifecycle ----------------------- *)

\* C18: a supported query opens at most one connection; while it runs the
\* connection is open; once it has ended, by a return or by an exception
\* of a fetch or of parsing, the connection it opened has been closed
\* exactly once and the runner holds no client; one more disconnect closes
\* nothing.
C18_ClosedExactlyOnce ==
    query \in SUPPORTED_QUERIES =>
        /\ opened <= 1
        /\ pc \in {"fetch1", "fetch2"} => (opened = 1 /\ closed = 0 /\ client = "open")
        /\ pc \in {"returned", "raised", "disconnected"} =>
              (closed = opened /\ client = "None")
        /\ pc \in {"returned", "disconnected"} => opened = 1

\* The runner of a q10 call that has ended was disconnected once more
C18_Witness ==
    /\ pc = "disconnected" /\ query = "q10"
    /\ opened = 1 /\ closed = 1 /\ client = "None"

(* ------------------------------ loading ------------------------------- *)

\* The backend operations issued for table t, in order
OpsOf(t) ==
    LET Of(o) == o.table = t
    IN  SelectSeq(ops, Of)

\* The insert operations issued for table t, in order
InsertsOf(t) ==
    LET Ins(o) == o.op = "insert"
    IN  SelectSeq(OpsOf(t), Ins)

RECURSIVE Inserted(_)
\* The rows handed to the insert operations os, in order
Inserted(os) == IF os = <<>> THEN <<>> ELSE os[1].arg \o Inserted(Tail(os))

\* The load_table_to_milvus call that returned last
LastCall == calls[Len(calls)]

\* The last call found data and has returned; rows still holds its rows
LoadReturned == lpc \in {"loop", "done"} /\ calls # <<>> /\ LastCall.found

\* C17: when load_table_to_milvus returns for a table with n rows and
\* batch_size >= 1, the inserts hold the prepared rows, each once and in
\* their order, in batches of 1 to batch_size rows of which only the last
\* may be short, and n is returned.
C17_EveryRowInsertedOnce ==
    (LoadReturned /\ batch_size >= 1) =>
        LET ins == InsertsOf(LastCall.table)
        IN  /\ Inserted(ins) = rows
            /\ collections[LastCall.table].rows = rows
            /\ \A k \in 1..Len(ins) :
                  /\ Len(ins[k].arg) >= 1
                  /\ Len(ins[k].arg) <= batch_size
                  /\ k < Len(ins) => Len(ins[k].arg) = batch_size
            /\ LastCall.returned = Len(rows)

\* Three rows went in as a full batch of two and a short one
C17_Witness ==
    /\ LoadReturned
    /\ batch_size = 2
    /\ Len(rows) = 3
    /\ Len(InsertsOf(LastCall.table)) = 2
    /\ LastCall.returned = 3

\* The positions in os of the operations named op
At(os, op) == {a \in 1..Len(os) : os[a].op = op}

\* The geometry columns the create_index operations of os name, in order
Indexed(os) ==
    LET Idx(o) == o.op = "create_index"
    IN  [a \in 1..Len(SelectSeq(os, Idx)) |-> SelectSeq(os, Idx)[a].arg[1]]

\* C19: the operations issued for a table come in this order: the
\* collection is dropped only if it existed and before the create, a
\* collection that existed is dropped before the create, every insert
\* follows the create, every create_index follows every insert,
\* load_collection comes at most once and last; a call that found data and
\* returned has tried every geometry column once, in order, whether or not
\* an index creation failed, has called load_collection and has returned
\* the number of rows inserted; no run ends by a create_index.
C19_OperationOrder ==
    /\ \A t \in LoaderTables :
          LET os == OpsOf(t)
          IN  /\ At(os, "drop_collection") # {} => t \in existing
              /\ \A a \in At(os, "drop_collection"), b \in At(os, "create_collection") : a < b
              /\ (At(os, "create_collection") # {} /\ t \in existing) =>
                    At(os, "drop_collection") # {}
              /\ \A a \in At(os, "insert") : \E b \in At(os, "create_collection") :
                    b < a /\ os[b].ok
              /\ \A a \in At(os, "insert"), b \in At(os, "create_index") : a < b
              /\ \A a \in At(os, "load_collection") : a = Len(os)
    /\ \A k \in 1..Len(calls) :
          calls[k].found =>
              LET os == OpsOf(calls[k].table)
              IN  /\ Indexed(os) = geometry_cols(calls[k].table)
                  /\ At(os, "load_collection") = {Len(os)}
                  /\ os[Len(os)].ok
                  /\ calls[k].returned = Len(Inserted(InsertsOf(calls[k].table)))
                  /\ collections[calls[k].table].loaded
    /\ (lpc = "crashed" /\ ops # <<>>) => ops[Len(ops)].op # "create_index"

\* The index on t_pickuploc failed, the one on t_dropoffloc was created, the
\* trip collection was loaded and the count of its rows returned
C19_Witness ==
    /\ LoadReturned
    /\ LastCall.table = "trip"
    /\ LastCall.table \in existing
    /\ LastCall.returned = MaxLoad
    /\ collections["trip"].indexes = {"t_dropoffloc"}
    /\ collections["trip"].loaded

\* C20: a call that found no data returned 0 and issued no operation for
\* its table, whose collection is as it was when the loader connected; the
\* run is not ended by such a call.
C20_NoDataNoOperation ==
    /\ \A k \in 1..Len(calls) :
          ~calls[k].found =>
              /\ calls[k].returned = 0
              /\ OpsOf(calls[k].table) = <<>>
              /\ calls[k].table \in existing =>
                    /\ calls[k].table \in DOMAIN collections
                    /\ collections[calls[k].table] = OldCollection
              /\ calls[k].table \notin existing => calls[k].table \notin DOMAIN collections
    /\ (calls # <<>> /\ ~LastCall.found) =>
          \/ lpc = "loop"
          \/ lpc = "done" /\ Len(calls) = Len(tables)
          \/ lpc \in {"create", "insert", "index", "crashed"} /\ Len(calls) < Len(tables)

\* No data for the first table, whose old collection stays; the second table
\* was loaded after it
C20_Witness ==
    /\ lpc = "done"
    /\ Len(calls) = 2
    /\ ~calls[1].found
    /\ calls[1].table \in existing
    /\ calls[2].found /\ calls[2].returned > 0
    /\ total_rows = calls[2].returned

(* ------------------------------ IoU range ----------------------------- *)

\* area1 >= 0, area2 >= 0 and 0 <= overlap_area <= min(area1, area2)
AreasConsistent(area1, area2, overlap_area) ==
    /\ area1 >= 0 /\ area2 >= 0
    /\ 0 <= overlap_area
    /\ overlap_area <= Min(area1, area2)

\* 0 <= iou <= 1
InUnitInterval(iou) ==
    /\ ~iou.nan
    /\ ~FloatLess(iou, Float(0))
    /\ ~FloatLess(Float(1), iou)

\* C21: every row q9 reports whose areas are consistent has its iou in
\* [0, 1] and did not get it from the branch iou = 1.0, and so have any
\* consistent areas q9 could be handed; two fetched buildings that do not
\* intersect have no row.
C21_IoUInUnitInterval ==
    (pc = "returned" /\ query = "q9") =>
          /\ \A k \in 1..Len(result.rows) :
                LET r == result.rows[k]
                IN  AreasConsistent(r.area1, r.area2, r.overlap_area) =>
                        /\ InUnitInterval(r.iou)
                        /\ IoUCase(r.overlap_area, r.area1 + r.area2 - r.overlap_area) # "one"
          /\ \A a, b \in 1..Len(building_results) :
                (a < b /\ ~Intersects(loads(building_results[a].b_boundary),
                                      loads(building_results[b].b_boundary))) =>
                    Q9RowsOf(a, b) = {}
          /\ \A a1 \in 0..GridMax, a2 \in 0..GridMax, ov \in 0..GridMax :
                AreasConsistent(a1, a2, ov) =>
                    /\ InUnitInterval(IoU(ov, a1 + a2 - ov))
                    /\ IoUCase(ov, a1 + a2 - ov) # "one"

\* q9 reported a pair whose overlap is the whole of both polygons: its iou
\* of 1 comes from the division
C21_Witness ==
    /\ pc = "returned" /\ query = "q9"
    /\ \E k \in 1..Len(result.rows) :
          LET r == result.rows[k]
          IN  /\ AreasConsistent(r.area1, r.area2, r.overlap_area)
              /\ r.overlap_area > 0
              /\ r.overlap_area = r.area1 /\ r.overlap_area = r.area2
              /\ IoUCase(r.overlap_area, r.area1 + r.area2 - r.overlap_area) = "divide"
              /\ FloatEq(r.iou, Float(1))

====
